---- MODULE Spec2Model ----
(***************************************************************************)
(* Model of text_evaluator/strategy.py: the four concept-scoring           *)
(* strategies (fraction-in-all-words, fraction-in-all-concepts, filtered   *)
(* by the count average, and the mentions-boosted variant), and of         *)
(* text_evaluator/evaluator.py: the evaluator that delegates to one.       *)
(*                                                                         *)
(* One strategy instance `self` is shared by the calls of parse that are   *)
(* in progress; each call has its own document, its own local variables    *)
(* and its own position in parse.                                          *)
(*                                                                         *)
(* Numbers.  Python computes the fractions and the average as floats.  A   *)
(* float is modelled by the exact rational <<n, d>> (d > 0) it rounds, and *)
(* comparisons are exact.  The quotients of the model have numerators and  *)
(* denominators of a few units, so two of them that differ are many ulps   *)
(* apart and a float comparison gives the answer of the exact one.         *)
(*                                                                         *)
(* Text.  A str is a sequence of one-character strings.  A dict is the     *)
(* sequence of its items <<key, value>> in insertion order, keys unique.   *)
(***************************************************************************)
EXTENDS Integers, Sequences, FiniteSets, TLC

VARIABLES self, document, pc, locals, outcome

vars == <<self, document, pc, locals, outcome>>

-----------------------------------------------------------------------------
(* Bounds of the model *)

MaxCount == 4
MaxTextLen == 3
MaxNumberOfConcepts == 1

(* Program constants *)

DefaultNumberOfConcepts == 10
MENTIONED_CONCEPT_BOOST == 2
DOTALL == 16

-----------------------------------------------------------------------------
(* Values *)

None == <<>>

Rat(n, d) == <<n, d>>

RatGe(x, y) == x[1] * y[2] >= y[1] * x[2]

RatEq(x, y) == x[1] * y[2] = y[1] * x[2]

RECURSIVE Sum(_)
Sum(s) == IF s = <<>> THEN 0 ELSE Head(s) + Sum(Tail(s))

RECURSIVE pow(_, _)
pow(base, exponent) ==
    IF exponent = 0 THEN 1 ELSE base * pow(base, exponent - 1)

Remove(s, i) == SubSeq(s, 1, i - 1) \o SubSeq(s, i + 1, Len(s))

(* dict.items(), dict.values() *)
Keys(d) == [i \in DOMAIN d |-> d[i][1]]
Values(d) == [i \in DOMAIN d |-> d[i][2]]

(* lst[:stop] *)
SliceTo(lst, stop) ==
    IF stop >= 0
    THEN SubSeq(lst, 1, IF stop < Len(lst) THEN stop ELSE Len(lst))
    ELSE SubSeq(lst, 1, Len(lst) + stop)

(* sorted(items, key=lambda item: item[1], reverse=True): descending, and  *)
(* items of equal key stay in their original order.                        *)
FirstMaxUnstable(items) ==
    CHOOSE i \in DOMAIN items :
        /\ \A j \in DOMAIN items : RatGe(items[i][2], items[j][2])
        /\ \A j \in DOMAIN items : j > i => ~RatEq(items[i][2], items[j][2])

FirstMax(items) ==
    CHOOSE i \in DOMAIN items :
        /\ \A j \in DOMAIN items : RatGe(items[i][2], items[j][2])
        /\ \A j \in DOMAIN items : j < i => ~RatEq(items[i][2], items[j][2])

RECURSIVE sorted_reverse(_)
sorted_reverse(items) ==
    IF items = <<>>
    THEN <<>>
    ELSE LET i == FirstMax(items)
         IN  <<items[i]>> \o sorted_reverse(Remove(items, i))

-----------------------------------------------------------------------------
(* Strings *)

str_a == <<"a">>
str_b == <<"b">>
str_ab == <<"a", "b">>

(* The text of a document is kept as the sequence of its lexical segments *)
(* (a word, a blank, a tag, an annotated span); the str the program reads  *)
(* is their concatenation.                                                 *)
RECURSIVE Chars(_)
Chars(text) == IF text = <<>> THEN <<>> ELSE Head(text) \o Chars(Tail(text))

(* `needle in haystack` *)
Contains(haystack, needle) ==
    \E i \in 0..(Len(haystack) - Len(needle)) :
        SubSeq(haystack, i + 1, i + Len(needle)) = needle

-----------------------------------------------------------------------------
(* The classes *)

AllWords == "ConceptFractionInAllWordsStrategy"
AllConcepts == "ConceptFractionInAllConceptsStrategy"
Average == "ConceptFractionFilteredByFractionAverageStrategy"
Boosted == "ConceptFilteredByFractionAverageMentionsBoostedStrategy"

FractionClasses == {AllWords, AllConcepts}
AverageClasses == {Average, Boosted}

evaluated_statistics_name == "count"

(* FractionEvaluationStrategy.__init__ *)
FractionEvaluationStrategy(class, number_of_concepts, min_fraction) ==
    [class |-> class,
     number_of_concepts |-> number_of_concepts,
     min_fraction |-> min_fraction]

(* The average-based classes define no __init__; the boosted one reads the *)
(* class attribute MENTIONED_CONCEPT_BOOST through self.                   *)
AverageStrategy(class) ==
    IF class = Boosted
    THEN [class |-> class, MENTIONED_CONCEPT_BOOST |-> MENTIONED_CONCEPT_BOOST]
    ELSE [class |-> class]

DocumentMetadata(statistics, text) == [statistics |-> statistics, text |-> text]

Result(concepts) == [kind |-> "returned", concepts |-> concepts, error |-> ""]

Raised(error) == [kind |-> "raised", concepts |-> <<>>, error |-> error]

Pending == [kind |-> "pending", concepts |-> <<>>, error |-> ""]

(* What a method hands back: its value, or the exception it raised. *)
Value(v) == [error |-> "", value |-> v]

Raise(error) == [error |-> error, value |-> <<>>]

CountOf(document_metadata) ==
    document_metadata.statistics[evaluated_statistics_name]

-----------------------------------------------------------------------------
(* Regular expressions of ConceptFractionInAllWordsStrategy                *)

lit_em == <<"<", "e", "m">>
lit_em_close == <<"<", "/", "e", "m", ">">>
lit_foo == <<"f", "o", "o">>

Whitespace == {" ", "\n"}

(* `.` without re.DOTALL matches any character but a newline *)
AllDot(s, lo, hi) == \A m \in lo..hi : s[m] # "\n"

LitAt(s, p, lit) ==
    /\ p >= 1
    /\ p + Len(lit) - 1 <= Len(s)
    /\ SubSeq(s, p, p + Len(lit) - 1) = lit

SetMax(S) == CHOOSE x \in S : \A y \in S : x >= y

SetMin(S) == CHOOSE x \in S : \A y \in S : x <= y

(* re_extract_annotated_words = <em.+>(.+?)</em> matched at position i:    *)
(* k is where a closing </em> can stand after the `>` at j, j is where the *)
(* `>` that ends the greedy .+ can stand.                                  *)
ClosersAfter(s, j) ==
    {k \in (j + 2)..Len(s) : LitAt(s, k, lit_em_close) /\ AllDot(s, j + 1, k - 1)}

GtCandidates(s, i) ==
    {j \in (i + 4)..Len(s) :
        /\ s[j] = ">"
        /\ AllDot(s, i + 3, j - 1)
        /\ ClosersAfter(s, j) # {}}

MatchesAt(s, i) == LitAt(s, i, lit_em) /\ GtCandidates(s, i) # {}

(* The last position of the match at i: .+ is greedy (the last `>` that    *)
(* lets the rest match), (.+?) is lazy (the first </em> after it).         *)
MatchEnd(s, i) == SetMin(ClosersAfter(s, SetMax(GtCandidates(s, i)))) + 4

(* pattern.sub(repl, string, count): the leftmost non-overlapping matches, *)
(* at most `count` of them, replaced by repl.                              *)
RECURSIVE re_sub(_, _, _)
re_sub(repl, string, count) ==
    LET starts == {i \in 1..Len(string) : MatchesAt(string, i)}
    IN  IF count = 0 \/ starts = {}
        THEN string
        ELSE LET i == SetMin(starts)
                 e == MatchEnd(string, i)
             IN  SubSeq(string, 1, i - 1) \o repl
                     \o re_sub(repl, SubSeq(string, e + 1, Len(string)), count - 1)

(* re_word_split = <.*?>|\s matched at position p: the last position of   *)
(* the match, 0 when there is none.                                        *)
SeparatorEnd(s, p) ==
    LET closes == {q \in (p + 1)..Len(s) : s[q] = ">" /\ AllDot(s, p + 1, q - 1)}
    IN  IF s[p] = "<" /\ closes # {}
        THEN SetMin(closes)
        ELSE IF s[p] \in Whitespace THEN p ELSE 0

(* pattern.split(string): the pieces between the matches, empty ones too *)
RECURSIVE split_from(_, _, _)
split_from(s, p, piece) ==
    IF p > Len(s)
    THEN <<piece>>
    ELSE LET e == SeparatorEnd(s, p)
         IN  IF e > 0
             THEN <<piece>> \o split_from(s, e + 1, <<>>)
             ELSE split_from(s, p + 1, Append(piece, s[p]))

re_split(string) == split_from(string, 1, <<>>)

-----------------------------------------------------------------------------
(* ConceptFractionInAllWordsStrategy.evaluate_metadata *)

(* a dict comprehension `{name: count / d for name, count in items}`: the  *)
(* first division by zero raises; no item, no division.                    *)
FractionOfEachGuarded(items, d) ==
    Value([i \in DOMAIN items |->
             <<items[i][1], IF d = 0 THEN Rat(0, 1) ELSE Rat(items[i][2], d)>>])

FractionOfEach(items, d) ==
    IF items # <<>> /\ d = 0
    THEN Raise("ZeroDivisionError")
    ELSE Value([i \in DOMAIN items |-> <<items[i][1], Rat(items[i][2], d)>>])

WordsAsList(text) ==
    LET pieces == re_split(re_sub(lit_foo, text, DOTALL))
    IN  {<<i, pieces[i]>> : i \in {n \in DOMAIN pieces : pieces[n] # <<>>}}

Words(text) ==
    LET pieces == re_split(re_sub(lit_foo, text, DOTALL))
    IN  {pieces[i] : i \in {n \in DOMAIN pieces : pieces[n] # <<>>}}

AllWords_word_count(document_metadata) ==
    Cardinality(Words(Chars(document_metadata.text)))

AllWords_evaluate_metadata(document_metadata) ==
    FractionOfEach(CountOf(document_metadata),
                   AllWords_word_count(document_metadata))

(* ConceptFractionInAllConceptsStrategy.evaluate_metadata *)
AllConcepts_annotation_count(document_metadata) ==
    Sum(Values(CountOf(document_metadata)))

AllConcepts_evaluate_metadata(document_metadata) ==
    FractionOfEach(CountOf(document_metadata),
                   AllConcepts_annotation_count(document_metadata))

(* FractionEvaluationStrategy._filter_concepts *)
Fraction_filter_concepts_strict(this, evaluated_concept_statistics) ==
    LET keep(item) ==
            \/ this.min_fraction = None
            \/ ~RatGe(this.min_fraction, item[2])
    IN  SelectSeq(evaluated_concept_statistics, keep)

Fraction_filter_concepts(this, evaluated_concept_statistics) ==
    LET keep(item) ==
            \/ this.min_fraction = None
            \/ RatGe(item[2], this.min_fraction)
    IN  SelectSeq(evaluated_concept_statistics, keep)

(* FractionEvaluationStrategy._create_result *)
Fraction_create_result(this, evaluated_concept_statistics) ==
    LET filtered_concepts ==
            Fraction_filter_concepts(this, evaluated_concept_statistics)
        sorted_concepts == Keys(sorted_reverse(filtered_concepts))
    IN  Result(SliceTo(sorted_concepts, this.number_of_concepts + 1))

-----------------------------------------------------------------------------
(* ConceptFractionFilteredByFractionAverageStrategy *)

Average_evaluate_metadata(document_metadata) ==
    LET items == CountOf(document_metadata)
    IN  Value([i \in DOMAIN items |-> <<items[i][1], Rat(items[i][2], 1)>>])

Average_calculate_concept_fraction_average(document_metadata) ==
    LET annotation_count == Sum(Values(CountOf(document_metadata)))
        number_of_concepts == Len(CountOf(document_metadata))
    IN  IF number_of_concepts = 0
        THEN Rat(0, 1)
        ELSE Rat(annotation_count, number_of_concepts)

Average_filter_concepts_strict(evaluated_concept_statistics, acceptance_threshold) ==
    LET keep(item) == ~RatGe(acceptance_threshold, item[2])
    IN  SelectSeq(evaluated_concept_statistics, keep)

Average_filter_concepts(evaluated_concept_statistics, acceptance_threshold) ==
    LET keep(item) == RatGe(item[2], acceptance_threshold)
    IN  SelectSeq(evaluated_concept_statistics, keep)

Average_create_result(evaluated_concept_statistics) ==
    Result(Keys(sorted_reverse(evaluated_concept_statistics)))

(* ConceptFilteredByFractionAverageMentionsBoostedStrategy.evaluate_metadata *)
concept_value(this, document_metadata, concept_name, concept_count) ==
    IF Contains(Chars(document_metadata.text), concept_name)
    THEN pow(concept_count, this.MENTIONED_CONCEPT_BOOST)
    ELSE concept_count

Boosted_evaluate_metadata(this, document_metadata) ==
    LET items == CountOf(document_metadata)
    IN  Value([i \in DOMAIN items |->
                 <<items[i][1],
                   Rat(concept_value(this, document_metadata,
                                     items[i][1], items[i][2]), 1)>>])

(* self.evaluate_metadata(document_metadata), by the class of self *)
evaluate_metadata(this, document_metadata) ==
    CASE this.class = AllWords ->
             AllWords_evaluate_metadata(document_metadata)
      [] this.class = AllConcepts ->
             AllConcepts_evaluate_metadata(document_metadata)
      [] this.class = Average ->
             Average_evaluate_metadata(document_metadata)
      [] this.class = Boosted ->
             Boosted_evaluate_metadata(this, document_metadata)

(* FractionEvaluationStrategy.parse and                                   *)
(* ConceptFractionFilteredByFractionAverageStrategy.parse, as one call     *)
Fraction_parse(this, document_metadata) ==
    LET r == evaluate_metadata(this, document_metadata)
    IN  IF r.error # ""
        THEN Raised(r.error)
        ELSE Fraction_create_result(this, r.value)

Average_parse(this, document_metadata) ==
    LET r == evaluate_metadata(this, document_metadata)
        avg_concept_fraction ==
            Average_calculate_concept_fraction_average(document_metadata)
    IN  IF avg_concept_fraction[1] = 0
        THEN Raised("TypeError")
        ELSE Average_create_result(
                 Average_filter_concepts(r.value, avg_concept_fraction))

parse(this, document_metadata) ==
    IF this.class \in FractionClasses
    THEN Fraction_parse(this, document_metadata)
    ELSE Average_parse(this, document_metadata)

-----------------------------------------------------------------------------
(* Inputs *)

URIs == {str_a, str_b, str_ab}

seg_a == str_a
seg_ab == str_ab
seg_space == <<" ">>
seg_newline == <<"\n">>
seg_tag == <<"<", "s", ">">>
(* <em b>a</em>, <em b>a ab</em>, and a span broken over two lines *)
seg_em_open == <<"<", "e", "m", " ", "b", ">">>
seg_em1 == seg_em_open \o seg_a \o lit_em_close
seg_em2 == seg_em_open \o seg_a \o seg_space \o seg_ab \o lit_em_close
seg_em3 == seg_em_open \o seg_a \o seg_newline \o seg_ab \o lit_em_close

Segments ==
    {seg_a, seg_ab, seg_space, seg_newline, seg_tag, seg_em1, seg_em2, seg_em3}

(* The texts of the boosted strategy: nothing, one word, one span *)
MentionTexts == {<<>>} \cup {<<segment>> : segment \in {seg_a, str_b, seg_ab, seg_em1}}

(* The counts of the one concept of a fraction-in-all-words document *)
WordCounts == {0, 1, 2}

TextsOver(alphabet, n) == UNION {[1..m -> alphabet] : m \in 0..n}

(* The "count" statistics: every order of every subset of the URIs, each   *)
(* with a count in 0..MaxCount.                                            *)
Mappings(n) ==
    UNION {{m \in [1..l -> URIs \X (0..MaxCount)] :
               \A i, j \in 1..l : i # j => m[i][1] # m[j][1]} : l \in 0..n}

Statistics(n) == {[count |-> m] : m \in Mappings(n)}

WordStatistics ==
    {[count |-> <<>>]} \cup {[count |-> <<<<str_a, k>>>>] : k \in WordCounts}

Documents(class) ==
    CASE class = AllWords ->
             {DocumentMetadata(st, text) :
                 st \in WordStatistics, text \in TextsOver(Segments, MaxTextLen)}
      [] class = Boosted ->
             {DocumentMetadata(st, text) :
                 st \in Statistics(Cardinality(URIs)), text \in MentionTexts}
      [] OTHER ->
             {DocumentMetadata(st, <<>>) : st \in Statistics(Cardinality(URIs))}

MinFractions == {None, Rat(1, 3), Rat(1, 2)}

NumbersOfConcepts == (-2..MaxNumberOfConcepts) \cup {DefaultNumberOfConcepts}

Strategies(class) ==
    CASE class = AllWords ->
             {FractionEvaluationStrategy(class, DefaultNumberOfConcepts, mf) :
                 mf \in {None, Rat(1, 2)}}
      [] class = AllConcepts ->
             {FractionEvaluationStrategy(class, n, mf) :
                 n \in NumbersOfConcepts, mf \in MinFractions}
      [] OTHER -> {AverageStrategy(class)}

Classes == FractionClasses \cup AverageClasses

NoLocals ==
    [evaluated_concept_statistics |-> None,
     avg_concept_fraction |-> None,
     filtered_concepts |-> None]

(* One call of parse on a fresh strategy *)
Init ==
    \E class \in Classes :
        /\ self \in Strategies(class)
        /\ document \in [{1} -> Documents(class)]
        /\ pc = [c \in {1} |-> "parse"]
        /\ locals = [c \in {1} |-> NoLocals]
        /\ outcome = [c \in {1} |-> Pending]

-----------------------------------------------------------------------------
(* parse, statement by statement; c is the call *)

(* evaluated_concept_statistics = self.evaluate_metadata(document_metadata) *)
EvaluateMetadataOnInstance(c) ==
    /\ pc[c] = "parse"
    /\ LET r == evaluate_metadata(self, document[c])
       IN  IF r.error # ""
           THEN /\ pc' = [pc EXCEPT ![c] = "raised"]
                /\ outcome' = [outcome EXCEPT ![c] = Raised(r.error)]
                /\ UNCHANGED locals
           ELSE /\ pc' = [pc EXCEPT ![c] =
                            IF self.class \in FractionClasses
                            THEN "_create_result"
                            ELSE "_calculate_concept_fraction_average"]
                /\ locals' = [k \in DOMAIN locals |->
                                [locals[k] EXCEPT
                                   !.evaluated_concept_statistics = r.value]]
                /\ UNCHANGED outcome
    /\ UNCHANGED <<self, document>>

EvaluateMetadata(c) ==
    /\ pc[c] = "parse"
    /\ LET r == evaluate_metadata(self, document[c])
       IN  IF r.error # ""
           THEN /\ pc' = [pc EXCEPT ![c] = "raised"]
                /\ outcome' = [outcome EXCEPT ![c] = Raised(r.error)]
                /\ UNCHANGED locals
           ELSE /\ pc' = [pc EXCEPT ![c] =
                            IF self.class \in FractionClasses
                            THEN "_create_result"
                            ELSE "_calculate_concept_fraction_average"]
                /\ locals' = [locals EXCEPT
                                ![c].evaluated_concept_statistics = r.value]
                /\ UNCHANGED outcome
    /\ UNCHANGED <<self, document>>

(* avg_concept_fraction = self._calculate_concept_fraction_average(...) *)
CalculateAverage(c) ==
    /\ pc[c] = "_calculate_concept_fraction_average"
    /\ locals' = [locals EXCEPT ![c].avg_concept_fraction =
                     Average_calculate_concept_fraction_average(document[c])]
    /\ pc' = [pc EXCEPT ![c] = "_filter_concepts"]
    /\ UNCHANGED <<self, document, outcome>>

(* if avg_concept_fraction == 0.0: return self._create_result()            *)
(* (a call without the required argument: TypeError), else                 *)
(* filtered_concepts = self._filter_concepts(..., avg_concept_fraction)    *)
FilterByAverage(c) ==
    /\ pc[c] = "_filter_concepts"
    /\ IF locals[c].avg_concept_fraction[1] = 0
       THEN /\ pc' = [pc EXCEPT ![c] = "raised"]
            /\ outcome' = [outcome EXCEPT ![c] = Raised("TypeError")]
            /\ UNCHANGED locals
       ELSE /\ pc' = [pc EXCEPT ![c] = "_create_result"]
            /\ locals' = [locals EXCEPT ![c].filtered_concepts =
                             Average_filter_concepts(
                                 locals[c].evaluated_concept_statistics,
                                 locals[c].avg_concept_fraction)]
            /\ UNCHANGED outcome
    /\ UNCHANGED <<self, document>>

(* return self._create_result(...) *)
CreateResult(c) ==
    /\ pc[c] = "_create_result"
    /\ IF self.class \in FractionClasses
       THEN /\ locals' = [locals EXCEPT ![c].filtered_concepts =
                             Fraction_filter_concepts(
                                 self, locals[c].evaluated_concept_statistics)]
            /\ outcome' = [outcome EXCEPT ![c] =
                              Fraction_create_result(
                                  self, locals[c].evaluated_concept_statistics)]
       ELSE /\ outcome' = [outcome EXCEPT ![c] =
                              Average_create_result(locals[c].filtered_concepts)]
            /\ UNCHANGED locals
    /\ pc' = [pc EXCEPT ![c] = "returned"]
    /\ UNCHANGED <<self, document>>

Next ==
    \E c \in DOMAIN pc :
        \/ EvaluateMetadata(c)
        \/ CalculateAverage(c)
        \/ FilterByAverage(c)
        \/ CreateResult(c)

Spec == Init /\ [][Next]_vars

(* Two calls in progress on one strategy instance, each with a document of *)
(* its own; a call that has ended may be followed by the next one.         *)
SharedMappings ==
    {<<>>,
     <<<<str_a, 0>>>>,
     <<<<str_a, 1>>, <<str_b, 1>>>>,
     <<<<str_b, 2>>, <<str_a, 1>>>>,
     <<<<str_a, 2>>, <<str_b, 1>>, <<str_ab, 4>>>>}

SharedTexts == {<<>>, <<seg_a>>, <<seg_em1, seg_space, seg_a>>}

SharedDocuments ==
    {DocumentMetadata([count |-> m], text) :
        m \in SharedMappings, text \in SharedTexts}

InitShared ==
    \E class \in Classes :
        /\ self \in Strategies(class)
        /\ document \in [{1, 2} -> SharedDocuments]
        /\ pc = [c \in {1, 2} |-> "parse"]
        /\ locals = [c \in {1, 2} |-> NoLocals]
        /\ outcome = [c \in {1, 2} |-> Pending]

(* strategy.parse(document_metadata), called again *)
StartCall(c) ==
    /\ pc[c] \in {"returned", "raised"}
    /\ \E d \in SharedDocuments : document' = [document EXCEPT ![c] = d]
    /\ pc' = [pc EXCEPT ![c] = "parse"]
    /\ locals' = [locals EXCEPT ![c] = NoLocals]
    /\ outcome' = [outcome EXCEPT ![c] = Pending]
    /\ UNCHANGED self

NextShared ==
    \E c \in DOMAIN pc :
        \/ EvaluateMetadata(c)
        \/ CalculateAverage(c)
        \/ FilterByAverage(c)
        \/ CreateResult(c)
        \/ StartCall(c)

SpecShared == InitShared /\ [][NextShared]_vars

-----------------------------------------------------------------------------
(* text_evaluator/evaluator.py: TextConceptEvaluator                       *)
(*                                                                         *)
(* In SpecEvaluator `self` is the evaluator, document[c] is the raw        *)
(* document_json_metadata of call c of get_concepts_from_text (a dict: a   *)
(* function from its keys), locals[c] holds the local variables of the     *)
(* call together with the arguments the strategy's parse has received, and *)
(* outcome[c] is what the call returned or raised.                         *)

TextConceptEvaluator(strategy) == [strategy |-> strategy]

(* The strategy of the evaluator's test: the concepts by ascending count,  *)
(* sorted() keeping equal counts in the order of the mapping.              *)
Dummy == "DummyStrategy"

DummyStrategy == [class |-> Dummy]

FirstMin(items) ==
    CHOOSE i \in DOMAIN items :
        /\ \A j \in DOMAIN items : items[i][2] <= items[j][2]
        /\ \A j \in DOMAIN items : j < i => items[i][2] # items[j][2]

RECURSIVE sorted(_)
sorted(items) ==
    IF items = <<>>
    THEN <<>>
    ELSE LET i == FirstMin(items)
         IN  <<items[i]>> \o sorted(Remove(items, i))

Dummy_parse(document_metadata) ==
    Result(Keys(sorted(document_metadata.statistics["count"])))

(* self.strategy.parse(document_metadata), whatever the class of strategy *)
strategy_parse(strategy, document_metadata) ==
    IF strategy.class = Dummy
    THEN Dummy_parse(document_metadata)
    ELSE parse(strategy, document_metadata)

(* A conversion that leaves the text at the default of DocumentMetadata *)
metadata2object_default_text(metadata) ==
    DocumentMetadata(metadata["statistics"], <<>>)

metadata2object(metadata) ==
    DocumentMetadata(metadata["statistics"], metadata["fulltext"])

InjectedStrategies ==
    {DummyStrategy} \cup UNION {Strategies(class) : class \in Classes}

(* The raw metadata: the two keys, and dicts that lack one of them *)
RawMetadata ==
    {[statistics |-> [count |-> m], fulltext |-> text] :
        m \in SharedMappings, text \in SharedTexts}
    \cup {[statistics |-> [count |-> m]] : m \in SharedMappings}
    \cup {[fulltext |-> text] : text \in SharedTexts}

EvaluatorLocals ==
    [document_metadata |-> None, result |-> None, parse_calls |-> <<>>]

InitEvaluator ==
    /\ self \in {TextConceptEvaluator(s) : s \in InjectedStrategies}
    /\ document \in [{1} -> RawMetadata]
    /\ pc = [c \in {1} |-> "get_concepts_from_text"]
    /\ locals = [c \in {1} |-> EvaluatorLocals]
    /\ outcome = [c \in {1} |-> Pending]

(* document_metadata = self.metadata2object(document_json_metadata) *)
Metadata2Object(c) ==
    /\ pc[c] = "get_concepts_from_text"
    /\ IF {"statistics", "fulltext"} \subseteq DOMAIN document[c]
       THEN /\ locals' = [locals EXCEPT ![c].document_metadata =
                             metadata2object(document[c])]
            /\ pc' = [pc EXCEPT ![c] = "strategy.parse"]
            /\ UNCHANGED outcome
       ELSE /\ outcome' = [outcome EXCEPT ![c] = Raised("KeyError")]
            /\ pc' = [pc EXCEPT ![c] = "raised"]
            /\ UNCHANGED locals
    /\ UNCHANGED <<self, document>>

(* result = self.strategy.parse(document_metadata); an exception of parse  *)
(* leaves get_concepts_from_text, which catches nothing.                   *)
StrategyParse(c) ==
    /\ pc[c] = "strategy.parse"
    /\ LET r == strategy_parse(self.strategy, locals[c].document_metadata)
       IN  IF r.kind = "raised"
           THEN /\ locals' = [locals EXCEPT ![c].parse_calls =
                                 Append(@, locals[c].document_metadata)]
                /\ outcome' = [outcome EXCEPT ![c] = r]
                /\ pc' = [pc EXCEPT ![c] = "raised"]
           ELSE /\ locals' = [locals EXCEPT
                                 ![c].parse_calls =
                                     Append(@, locals[c].document_metadata),
                                 ![c].result = r]
                /\ pc' = [pc EXCEPT ![c] = "return"]
                /\ UNCHANGED outcome
    /\ UNCHANGED <<self, document>>

(* return result.concepts *)
ReturnConcepts(c) ==
    /\ pc[c] = "return"
    /\ outcome' = [outcome EXCEPT ![c] = Result(locals[c].result.concepts)]
    /\ pc' = [pc EXCEPT ![c] = "returned"]
    /\ UNCHANGED <<self, document, locals>>

NextEvaluator ==
    \E c \in DOMAIN pc :
        \/ Metadata2Object(c)
        \/ StrategyParse(c)
        \/ ReturnConcepts(c)

SpecEvaluator == InitEvaluator /\ [][NextEvaluator]_vars

-----------------------------------------------------------------------------
(* Vocabulary of the properties *)

Calls == DOMAIN pc

Returned(c) == pc[c] = "returned"

Finished(c) == pc[c] \in {"returned", "raised"}

Counts(c) == CountOf(document[c])

Scores(c) == locals[c].evaluated_concept_statistics

(* item i comes before item j in a descending order that keeps the input   *)
(* order of equal scores                                                   *)
Precedes(items, i, j) ==
    \/ ~RatGe(items[j][2], items[i][2])
    \/ RatEq(items[i][2], items[j][2]) /\ i < j

RankIn(items, kept, i) == Cardinality({j \in kept : Precedes(items, j, i)})

(* concepts lists the first `limit` of the items at the positions `kept`   *)
(* (all of them when there are fewer), best first                          *)
IsRanking(concepts, items, kept, limit) ==
    /\ Len(concepts) =
           IF limit < Cardinality(kept) THEN limit ELSE Cardinality(kept)
    /\ \A i \in kept :
           RankIn(items, kept, i) < Len(concepts) =>
               concepts[RankIn(items, kept, i) + 1] = items[i][1]

PassesMinFraction(score) ==
    self.min_fraction = None \/ RatGe(score, self.min_fraction)

KeptByMinFraction(c) ==
    {i \in DOMAIN Scores(c) : PassesMinFraction(Scores(c)[i][2])}

-----------------------------------------------------------------------------
(* C1: for both average-based strategies, parse on a document whose        *)
(* "count" mapping is empty returns a Result with an empty concept list    *)
(* and raises no error.                                                    *)
C1_EmptyCountReturnsEmptyResult ==
    \A c \in Calls :
        (/\ self.class \in AverageClasses
         /\ Counts(c) = <<>>
         /\ Finished(c))
            => outcome[c] = Result(<<>>)

(* C2: a fraction-based strategy returns at most number_of_concepts        *)
(* concepts (stated for number_of_concepts >= 0).                          *)
C2_AtMostNumberOfConcepts ==
    \A c \in Calls :
        (/\ self.class \in FractionClasses
         /\ Returned(c)
         /\ self.number_of_concepts >= 0)
            => Len(outcome[c].concepts) <= self.number_of_concepts

C4_FilterKeepsScoresAtOrAboveMinFraction ==
    \A c \in Calls :
        (self.class \in FractionClasses /\ Returned(c)) =>
            LET filtered == locals[c].filtered_concepts
                total == Sum(Values(Counts(c)))
            IN  /\ \A k \in DOMAIN outcome[c].concepts :
                       \E i \in KeptByMinFraction(c) :
                           Scores(c)[i][1] = outcome[c].concepts[k]
                /\ \A i \in DOMAIN Scores(c) :
                       (i \in KeptByMinFraction(c)) <=>
                           (Scores(c)[i] \in {filtered[k] : k \in DOMAIN filtered})
                /\ self.min_fraction = None => filtered = Scores(c)
                /\ (self.class = AllConcepts /\ self.min_fraction # None) =>
                       \A i \in DOMAIN Counts(c) :
                           (Counts(c)[i][1] \in {filtered[k][1] : k \in DOMAIN filtered})
                               <=> Counts(c)[i][2] * self.min_fraction[2]
                                       >= self.min_fraction[1] * total

(* a concept whose score equals min_fraction is returned, another one is   *)
(* dropped                                                                 *)
C4_Witness ==
    \E c \in Calls :
        /\ self.class = AllConcepts
        /\ Returned(c)
        /\ self.min_fraction # None
        /\ self.number_of_concepts >= 0
        /\ \E i \in DOMAIN Scores(c) :
               /\ RatEq(Scores(c)[i][2], self.min_fraction)
               /\ \E k \in DOMAIN outcome[c].concepts :
                      outcome[c].concepts[k] = Scores(c)[i][1]
        /\ Len(locals[c].filtered_concepts) < Len(Scores(c))

(* What the average-based strategies are said to compute *)

CountItems(c) ==
    [i \in DOMAIN Counts(c) |-> <<Counts(c)[i][1], Rat(Counts(c)[i][2], 1)>>]

(* score >= (sum of all counts) / (number of concepts) *)
AtOrAboveAverage(c, items) ==
    {i \in DOMAIN items :
        RatGe(items[i][2], Rat(Sum(Values(Counts(c))), Len(Counts(c))))}

(* C5: the base average-based strategy, on a non-empty count mapping with  *)
(* a positive count, returns exactly the concepts whose count is >= the    *)
(* sum of the counts divided by their number, by descending count, ties in *)
(* the order of the input mapping, the list not truncated.                 *)
C5_AverageKeepsCountsAtOrAboveMean ==
    \A c \in Calls :
        (/\ self.class = Average
         /\ Finished(c)
         /\ \E i \in DOMAIN Counts(c) : Counts(c)[i][2] > 0)
            => /\ outcome[c].kind = "returned"
               /\ IsRanking(outcome[c].concepts, CountItems(c),
                            AtOrAboveAverage(c, CountItems(c)), Len(Counts(c)))

(* a concept whose count equals the mean is returned, one below the mean   *)
(* is not, and the result is not in the order of the input mapping         *)
C5_Witness ==
    \E c \in Calls :
        /\ self.class = Average
        /\ Returned(c)
        /\ \E i \in DOMAIN Counts(c) :
               /\ Counts(c)[i][2] * Len(Counts(c)) = Sum(Values(Counts(c)))
               /\ Counts(c)[i][1] \in
                      {outcome[c].concepts[k] : k \in DOMAIN outcome[c].concepts}
        /\ Len(outcome[c].concepts) < Len(Counts(c))
        /\ \E i, j \in DOMAIN Counts(c) :
               /\ i < j
               /\ Len(outcome[c].concepts) >= 2
               /\ outcome[c].concepts[1] = Counts(c)[j][1]
               /\ outcome[c].concepts[2] = Counts(c)[i][1]

(* C6: the average-based strategy, on a non-empty count mapping in which   *)
(* all concepts have the same non-negative count: the threshold equals     *)
(* that count, nothing is filtered out, and parse returns all concepts in  *)
(* the order of the input mapping.                                         *)
C6_UniformCountsReturnAllInInputOrder ==
    \A c \in Calls :
        (/\ self.class = Average
         /\ Finished(c)
         /\ Counts(c) # <<>>
         /\ \A i \in DOMAIN Counts(c) : Counts(c)[i][2] = Counts(c)[1][2])
            => /\ RatEq(locals[c].avg_concept_fraction, Rat(Counts(c)[1][2], 1))
               /\ outcome[c] = Result(Keys(Counts(c)))

(* C7: the mentions-boosted strategy scores a concept count^boost when its *)
(* URI occurs in the text and count otherwise, takes the average of the    *)
(* unboosted counts as threshold, keeps a concept iff its score >= that    *)
(* threshold, and orders the kept concepts by descending score, ties in    *)
(* the order of the input mapping.                                         *)
BoostedItems(c) ==
    [i \in DOMAIN Counts(c) |->
        <<Counts(c)[i][1],
          Rat(IF Contains(Chars(document[c].text), Counts(c)[i][1])
              THEN pow(Counts(c)[i][2], MENTIONED_CONCEPT_BOOST)
              ELSE Counts(c)[i][2], 1)>>]

C7_BoostedScoresFilteredByRawAverage ==
    \A c \in Calls :
        (self.class = Boosted /\ Finished(c) /\ Counts(c) # <<>>) =>
            /\ Scores(c) = BoostedItems(c)
            /\ outcome[c].kind = "returned"
            /\ IsRanking(outcome[c].concepts, BoostedItems(c),
                         AtOrAboveAverage(c, BoostedItems(c)), Len(Counts(c)))

(* The same statement for the documents whose counts are not all zero: a   *)
(* mentioned concept below the raw average is kept when its boosted score  *)
(* reaches it.                                                             *)
BoostedRankingWhenAveragePositive ==
    \A c \in Calls :
        (/\ self.class = Boosted
         /\ Finished(c)
         /\ \E i \in DOMAIN Counts(c) : Counts(c)[i][2] > 0)
            => /\ Scores(c) = BoostedItems(c)
               /\ outcome[c].kind = "returned"
               /\ IsRanking(outcome[c].concepts, BoostedItems(c),
                            AtOrAboveAverage(c, BoostedItems(c)), Len(Counts(c)))

-----------------------------------------------------------------------------
(* The tokens of a text, told from its segments *)

Spans == {seg_em1, seg_em2, seg_em3}

WordLike == {seg_a, seg_ab} \cup Spans

(* every word and every span stands between blanks or tags *)
Delimited(text) ==
    \A i \in DOMAIN text :
        (i + 1 \in DOMAIN text) => ~(text[i] \in WordLike /\ text[i + 1] \in WordLike)

(* one token for every word occurrence and for every annotated span *)
ClaimedTokenCount(text) == Cardinality({i \in DOMAIN text : text[i] \in WordLike})

Lexeme(kind, chars) == [kind |-> kind, chars |-> chars]

(* A span broken over two lines reads as a tag, a word, the line break, a  *)
(* word and a tag.                                                         *)
LexemesOf(segment) ==
    CASE segment \in {seg_a, seg_ab} -> <<Lexeme("word", segment)>>
      [] segment \in {seg_space, seg_tag} -> <<Lexeme("sep", <<>>)>>
      [] segment = seg_newline -> <<Lexeme("nl", <<>>)>>
      [] segment \in {seg_em1, seg_em2} -> <<Lexeme("span", <<>>)>>
      [] segment = seg_em3 ->
             <<Lexeme("sep", <<>>), Lexeme("word", seg_a), Lexeme("nl", <<>>),
               Lexeme("word", seg_ab), Lexeme("sep", <<>>)>>

RECURSIVE Lexemes(_)
Lexemes(text) ==
    IF text = <<>> THEN <<>> ELSE LexemesOf(Head(text)) \o Lexemes(Tail(text))

(* On a line, what stands from the first span to the last one becomes one  *)
(* placeholder word.                                                       *)
Swallowed(L, i) ==
    \E p, q \in DOMAIN L :
        /\ p <= i /\ i <= q
        /\ L[p].kind = "span" /\ L[q].kind = "span"
        /\ \A m \in p..q : L[m].kind # "nl"

IsSep(L, i) == L[i].kind \in {"sep", "nl"} /\ ~Swallowed(L, i)

Piece(L, i) ==
    IF Swallowed(L, i)
    THEN IF i = 1 \/ ~Swallowed(L, i - 1) THEN lit_foo ELSE <<>>
    ELSE L[i].chars

RECURSIVE TokenText(_, _, _)
TokenText(L, x, y) ==
    IF x > y THEN <<>> ELSE Piece(L, x) \o TokenText(L, x + 1, y)

TokenRuns(L) ==
    {r \in (DOMAIN L) \X (DOMAIN L) :
        /\ r[1] <= r[2]
        /\ \A m \in r[1]..r[2] : ~IsSep(L, m)
        /\ r[1] = 1 \/ IsSep(L, r[1] - 1)
        /\ r[2] = Len(L) \/ IsSep(L, r[2] + 1)}

DistinctTokenCount(text) ==
    LET L == Lexemes(text)
    IN  Cardinality({TokenText(L, r[1], r[2]) : r \in TokenRuns(L)})

EvaluatedAllWords(c) ==
    self.class = AllWords /\ pc[c] \in {"_create_result", "returned"}

-----------------------------------------------------------------------------
(* the text holds no word and no annotated span *)
NoTokens(text) ==
    \A i \in DOMAIN text : text[i] \in {seg_space, seg_newline, seg_tag}

(* no tokens, or a total annotation count of zero (an empty mapping too) *)
ZeroDenominator(c) ==
    \/ self.class = AllWords /\ NoTokens(document[c].text)
    \/ self.class = AllConcepts /\ \A i \in DOMAIN Counts(c) : Counts(c)[i][2] = 0

(* C9: whenever the denominator of a fraction-based strategy is zero, an   *)
(* empty count mapping included, parse fails with a division by zero and   *)
(* returns no result.                                                      *)
C9_ZeroDenominatorRaises ==
    \A c \in Calls :
        (Finished(c) /\ ZeroDenominator(c)) =>
            outcome[c] = Raised("ZeroDivisionError")

(* C9 as amended: with a zero denominator parse fails with a division by   *)
(* zero when the count mapping is not empty, and returns an empty result   *)
(* when it is empty (nothing is divided).                                  *)
C9_ZeroDenominatorRaisesUnlessNoConcept ==
    \A c \in Calls :
        (Finished(c) /\ ZeroDenominator(c)) =>
            outcome[c] = IF Counts(c) = <<>>
                         THEN Result(<<>>)
                         ELSE Raised("ZeroDivisionError")

(* parse has failed on a text of blanks and tags with a counted concept *)
C9_Witness ==
    \E c \in Calls :
        /\ self.class = AllWords
        /\ document[c].text # <<>>
        /\ NoTokens(document[c].text)
        /\ \E i \in DOMAIN Counts(c) : Counts(c)[i][2] > 0
        /\ outcome[c] = Raised("ZeroDivisionError")

-----------------------------------------------------------------------------
(* C10: however the calls of parse on one shared strategy interleave, each *)
(* call returns what it returns when run alone, and no call changes the    *)
(* strategy's configuration or a document.                                 *)
C10_CallsDoNotInterfere ==
    /\ [](\A c \in Calls : Finished(c) => outcome[c] = parse(self, document[c]))
    /\ [][/\ self' = self
          /\ \A c \in Calls : ~Finished(c) => document'[c] = document[c]]_vars

(* a call has ended with concepts while the other call, on another         *)
(* document, is between two of its statements                              *)
C10_Witness ==
    /\ Calls = {1, 2}
    /\ pc[1] \in {"_create_result", "_filter_concepts"}
    /\ Returned(2)
    /\ outcome[2].concepts # <<>>
    /\ document[1] # document[2]
    /\ parse(self, document[1]) # parse(self, document[2])

-----------------------------------------------------------------------------
(* The document the evaluator is said to hand to the strategy *)
HasBothKeys(c) == {"statistics", "fulltext"} \subseteq DOMAIN document[c]

DocumentOf(c) ==
    [statistics |-> document[c]["statistics"], text |-> document[c]["fulltext"]]

(* C11: for every injected strategy and every raw metadata with the keys   *)
(* "statistics" and "fulltext", a finished get_concepts_from_text has      *)
(* called the strategy's parse exactly once, on a DocumentMetadata whose   *)
(* statistics and text are those two values (and at no moment more than   *)
(* once); when parse returned a Result the call returns that Result's      *)
(* concepts, the same elements in the same order, and when parse raised    *)
(* there is no Result and the exception leaves the call.                   *)
C11_DelegatesOnceAndReturnsConcepts ==
    \A c \in Calls :
        /\ Len(locals[c].parse_calls) <= 1
        /\ (HasBothKeys(c) /\ Finished(c)) =>
               /\ locals[c].parse_calls = <<DocumentOf(c)>>
               /\ LET r == strategy_parse(self.strategy, DocumentOf(c))
                  IN  IF r.kind = "returned"
                      THEN /\ locals[c].result = r
                           /\ outcome[c].kind = "returned"
                           /\ outcome[c].concepts = r.concepts
                      ELSE outcome[c] = r

(* a call with a non-empty fulltext has returned two or more concepts in   *)
(* an order that is not the order of the raw count mapping                 *)
C11_Witness ==
    \E c \in Calls :
        /\ HasBothKeys(c)
        /\ Returned(c)
        /\ document[c]["fulltext"] # <<>>
        /\ Len(outcome[c].concepts) >= 2
        /\ outcome[c].concepts # Keys(document[c]["statistics"]["count"])
        /\ outcome[c].concepts = locals[c].result.concepts

-----------------------------------------------------------------------------
(* The concepts of maximum raw count *)
MaxCountConcepts(c) ==
    {Counts(c)[i][1] : i \in {k \in DOMAIN Counts(c) :
                                 \A j \in DOMAIN Counts(c) :
                                     Counts(c)[k][2] >= Counts(c)[j][2]}}

(* C12: for both average-based strategies (boost exponent 2) and every     *)
(* non-empty count mapping of non-negative integers with a positive sum,   *)
(* parse returns a non-empty list that contains every concept of maximum   *)
(* raw count.                                                              *)
C12_MaxCountConceptsAreReturned ==
    \A c \in Calls :
        (/\ self.class \in AverageClasses
         /\ Finished(c)
         /\ Counts(c) # <<>>
         /\ \A i \in DOMAIN Counts(c) : Counts(c)[i][2] >= 0
         /\ Sum(Values(Counts(c))) > 0)
            => /\ outcome[c].kind = "returned"
               /\ outcome[c].concepts # <<>>
               /\ MaxCountConcepts(c) \subseteq
                      {outcome[c].concepts[k] : k \in DOMAIN outcome[c].concepts}

(* the boosted strategy has returned: a mentioned concept of lower count   *)
(* comes first, the unmentioned concept of maximum count follows it, and a *)
(* third concept is left out                                               *)
C12_Witness ==
    \E c \in Calls :
        /\ self.class = Boosted
        /\ self.MENTIONED_CONCEPT_BOOST = 2
        /\ Returned(c)
        /\ Len(outcome[c].concepts) >= 2
        /\ Len(outcome[c].concepts) < Len(Counts(c))
        /\ outcome[c].concepts[1] \notin MaxCountConcepts(c)
        /\ outcome[c].concepts[2] \in MaxCountConcepts(c)
        /\ ~Contains(Chars(document[c].text), outcome[c].concepts[2])

====
